---- MODULE Spec2Model ----
(***************************************************************************)
(* Model of the password vault backend: backend/crypto_manager.py,         *)
(* backend/db_manager.py and the request handlers of backend/app.py.       *)
(*                                                                         *)
(* The handlers are plain `def` endpoints, which the server runs on a      *)
(* thread pool: requests interleave at every access to the shared          *)
(* CryptoManager instance (`crypto`, app.py:58) and to the SQLite file.    *)
(* Each handler is therefore a small program counter machine whose steps   *)
(* are the handler's accesses to shared state, in source order.            *)
(*                                                                         *)
(* Cryptography is modelled symbolically: a key is the pair (password,     *)
(* salt) it was derived from, a ciphertext records the key, nonce and      *)
(* plaintext bytes it was produced from, and decryption succeeds exactly   *)
(* when key and nonce match and the bytes were not tampered with.          *)
(* os.urandom is modelled as a source of values never produced before.     *)
(***************************************************************************)
EXTENDS Integers, Sequences, FiniteSets, TLC

(* ------------------------------ bounds -------------------------------- *)

\* number of salts os.urandom(16) hands out in one behaviour
MaxSalt == 2
\* number of nonces os.urandom(12) hands out in one behaviour
MaxNonce == 4
\* number of rows the passwords table may hold
MaxRows == 2
\* the same, while requests are served concurrently
ConcRows == 1
\* number of rows ever inserted into the attachments table
MaxAtt == 1
\* last second of the wall clock int(time.time())
MaxClock == 1
MaxCsv == 2

\* request slots: the threads of the server's pool that serve requests at the
\* same time
Procs == {1, 2}

\* master passwords a client may send
Passwords == {"Secret1", "Secret2"}

\* bodies of POST /api/passwords
AddInputs ==
    { [service |-> "email", username |-> "a@x.com", password |-> "hunter2"],
      [service |-> "bank",  username |-> "bob",     password |-> "pw2"] }

\* rows of an uploaded CSV file: the fields of the columns that import reads;
\* None is the value csv.DictReader gives a field that a short row lacks
None == "<None>"
CsvRows ==
    { [service |-> "site", username |-> "alice", password |-> "pw1"],
      [service |-> "",     username |-> "bob",   password |-> ""],
      [service |-> "shop", username |-> None,    password |-> "pw3"] }

\* header lines of an uploaded CSV file, as the set of their field names
CsvHeaders == { {"url", "username", "password"}, {"Name", "Password"},
                {"url", "username"} }

\* uploaded files: name and content
Files == { [filename |-> "id.pdf", content |-> <<"b", "scan">>] }

(* ------------------------------ values -------------------------------- *)

NoSalt == 0
NoHash == <<"none", "">>
NoKey == [pw |-> "", salt |-> NoSalt]
NoCt == [key |-> NoKey, nonce |-> 0, pt |-> <<"b", "">>, ok |-> FALSE]
NoRow == [id |-> 0, service |-> "", username |-> "", encrypted_data |-> NoCt, nonce |-> 0]
NoAtt == [id |-> 0, password_id |-> 0, filename |-> "", encrypted_data |-> NoCt, nonce |-> 0]
NoEnc == [ciphertext |-> NoCt, nonce |-> 0]

\* str.encode() / bytes.decode()
Encode(s) == <<"b", s>>

\* mutant: the bytes are returned as they are, not decoded
Decode_Raw(b) == b

Decode(b) == b[2]

\* PasswordHasher.hash / PasswordHasher.verify (argon2)
PhHash(password) == <<"argon2id", password>>

\* mutant: the verifier accepts every password
PhVerify_Any(hash, password) == TRUE

PhVerify(hash, password) == hash = PhHash(password)

\* CryptoManager.derive_key: deterministic in (password, salt)
derive_key(password, salt) == [pw |-> password, salt |-> salt]

\* AESGCM(key).encrypt(nonce, plaintext, None)
AesEncrypt(key, nonce, plaintext) ==
    [key |-> key, nonce |-> nonce, pt |-> plaintext, ok |-> TRUE]

\* AESGCM(key).decrypt(nonce, ct, None) raises InvalidTag unless this holds
AesValid(key, nonce, ct) == ct.ok /\ ct.key = key /\ ct.nonce = nonce

\* CryptoManager.decrypt_bytes: raises when locked or when the tag fails
CanDecrypt(key, nonce, ct) == key # NoKey /\ AesValid(key, nonce, ct)
decrypt_bytes(key, nonce, ct) == ct.pt
decrypt(key, nonce, ct) == Decode(decrypt_bytes(key, nonce, ct))

\* CryptoManager.encrypt_bytes / encrypt with the nonce os.urandom returned
encrypt_bytes(key, nonce, plaintext) ==
    [ciphertext |-> AesEncrypt(key, nonce, plaintext), nonce |-> nonce]
encrypt(key, nonce, plaintext) == encrypt_bytes(key, nonce, Encode(plaintext))

\* an out-of-band bit flip in a stored ciphertext
Tamper(ct) == [ct EXCEPT !.ok = FALSE]

(* ----------------------------- the store ------------------------------ *)

\* vault.db after init_db(): empty tables
EmptyDb ==
    [salt |-> NoSalt, pw_hash |-> NoHash,
     passwords |-> <<>>, attachments |-> {}, att_seq |-> 0]

\* get_master_config: (salt, pw_hash), None modelled by NoSalt / NoHash
get_master_config(d) == [salt |-> d.salt, pw_hash |-> d.pw_hash]

\* get_passwords: SELECT * FROM passwords
get_passwords(d) == d.passwords

\* INSERT INTO passwords: the AUTOINCREMENT id is the next row number
InsertPassword(d, service, username, encrypted_data, nonce) ==
    [d EXCEPT !.passwords = Append(@,
        [id |-> Len(@) + 1, service |-> service, username |-> username,
         encrypted_data |-> encrypted_data, nonce |-> nonce])]

\* UPDATE passwords SET encrypted_data=?, nonce=? WHERE id=?
UpdatePassword(d, id, encrypted_data, nonce) ==
    IF id \in 1..Len(d.passwords)
    THEN [d EXCEPT !.passwords[id].encrypted_data = encrypted_data,
                   !.passwords[id].nonce = nonce]
    ELSE d

\* INSERT OR REPLACE INTO config (key, value) for 'salt' / 'password_hash'
ReplaceSalt(d, salt) == [d EXCEPT !.salt = salt]
ReplaceHash(d, pw_hash) == [d EXCEPT !.pw_hash = pw_hash]

\* set_master_config: both rows, one commit
set_master_config(d, salt, pw_hash) == ReplaceHash(ReplaceSalt(d, salt), pw_hash)

\* INSERT INTO attachments
InsertAttachment(d, password_id, filename, encrypted_data, nonce) ==
    [d EXCEPT !.att_seq = @ + 1,
              !.attachments = @ \cup
                 {[id |-> d.att_seq + 1, password_id |-> password_id,
                   filename |-> filename, encrypted_data |-> encrypted_data,
                   nonce |-> nonce]}]

\* get_attachment: SELECT * FROM attachments WHERE id=?
HasAttachment(d, id) == \E a \in d.attachments : a.id = id
get_attachment(d, id) == CHOOSE a \in d.attachments : a.id = id

\* get_attachments: SELECT id, filename FROM attachments WHERE password_id=?
get_attachments(d, password_id) ==
    LET ids == SelectSeq([i \in 1..d.att_seq |-> i],
                         LAMBDA i : \E a \in d.attachments :
                                       a.id = i /\ a.password_id = password_id)
    IN [k \in 1..Len(ids) |->
           [id |-> ids[k], filename |-> get_attachment(d, ids[k]).filename]]

\* mutant: the DELETE removes nothing
DeleteAttachment_Keeps(d, id) == d

\* DELETE FROM attachments WHERE id=?
DeleteAttachment(d, id) ==
    [d EXCEPT !.attachments = {a \in @ : a.id # id}]

\* UPDATE passwords SET service=?, username=?, encrypted_data=?, nonce=? WHERE id=?
UpdatePasswordRow(d, id, service, username, encrypted_data, nonce) ==
    IF id \in 1..Len(d.passwords)
    THEN [d EXCEPT !.passwords[id].service = service,
                   !.passwords[id].username = username,
                   !.passwords[id].encrypted_data = encrypted_data,
                   !.passwords[id].nonce = nonce]
    ELSE d

(* ------------------------------- state -------------------------------- *)

VARIABLES
    master_key,   \* crypto.master_key of the global CryptoManager
    db,           \* committed content of vault.db
    db_lock,      \* process holding SQLite's write lock, 0 when free
    snapshots,    \* snapshots/vault_<timestamp>.db, by timestamp
    clock,        \* int(time.time())
    salt_ctr,     \* salts handed out so far by os.urandom(16)
    nonce_ctr,    \* nonces handed out so far by os.urandom(12)
    pc,           \* position of each request slot in its handler
    loc           \* the handler's request body and local variables

vars == <<master_key, db, db_lock, snapshots, clock, salt_ctr, nonce_ctr,
          pc, loc>>

NoSnap == [present |-> FALSE, content |-> EmptyDb]

Loc0 ==
    [op |-> "none", password |-> "", new_password |-> "",
     entry |-> [service |-> "", username |-> "", password |-> ""],
     file |-> [filename |-> "", content |-> <<"b", "">>], id |-> 0,
     salt |-> NoSalt, pw_hash |-> NoHash, temp_key |-> NoKey,
     rows |-> <<>>, i |-> 0, out |-> <<>>, enc |-> <<>>,
     tx |-> EmptyDb, txi |-> 0, stdout |-> <<>>,
     csv |-> [header |-> {}, rows |-> <<>>], count |-> 0, result |-> ""]

Init ==
    /\ master_key = NoKey
    /\ db = EmptyDb
    /\ db_lock = 0
    /\ snapshots = [t \in 0..MaxClock |-> NoSnap]
    /\ clock = 0
    /\ salt_ctr = 0
    /\ nonce_ctr = 0
    /\ pc = [p \in Procs |-> "idle"]
    /\ loc = [p \in Procs |-> Loc0]

(* ------------------------------ helpers ------------------------------- *)

\* the handler moves on to `label` with its locals set to `l`
Goto(p, label, l) ==
    /\ pc' = [pc EXCEPT ![p] = label]
    /\ loc' = [loc EXCEPT ![p] = l]

\* the handler returns (or raises HTTPException) with outcome `result`
Finish(p, result, l) == Goto(p, "done", [l EXCEPT !.result = result])

\* CryptoManager.unlock: the value of master_key after the call
unlock(key, password, stored_salt) ==
    IF stored_salt = NoSalt THEN key ELSE derive_key(password, stored_salt)

\* CryptoManager.lock: the value of master_key after the call
lock(key) == NoKey

\* CryptoManager.is_unlocked
is_unlocked(key) == key # NoKey

\* create_snapshot: shutil.copy2(DB_FILE, snapshots/vault_<int(time.time())>.db)
create_snapshot(snaps, d, now) ==
    [snaps EXCEPT ![now] = [present |-> TRUE, content |-> d]]

AllIdle == \A q \in Procs : pc[q] = "idle"

\* a request is given to slot p, the first free one (the slots are
\* interchangeable: a slot keeps nothing from one request to the next)
Arrives(p) ==
    /\ pc[p] = "idle"
    /\ \A q \in Procs : q < p => pc[q] # "idle"

\* requests in flight that will insert a row into passwords / attachments
PendingAdds == Cardinality({q \in Procs : pc[q] # "idle" /\ loc[q].op = "add"})
PendingUploads == Cardinality({q \in Procs : pc[q] # "idle" /\ loc[q].op = "upload"})

\* the dependency get_crypto of a request with body l: 401 "Vault is locked"
\* unless crypto.is_unlocked(), else the handler runs, from `label`
get_crypto(p, label, l) ==
    IF ~is_unlocked(master_key)
    THEN Finish(p, "VaultLocked", l)
    ELSE Goto(p, label, l)

(* --------------------- init, unlock and lock -------------------------- *)

\* POST /api/init arrives; initialize_vault: the existing-salt check
initialize_vault_check(p) ==
    /\ Arrives(p)
    /\ \E pw \in Passwords :
         LET l == [Loc0 EXCEPT !.op = "init", !.password = pw] IN
           IF get_master_config(db).salt # NoSalt
           THEN Finish(p, "AlreadyInitialized", l)
           ELSE Goto(p, "init_store", l)
    /\ UNCHANGED <<master_key, db, db_lock, snapshots, clock, salt_ctr,
                   nonce_ctr>>

\* initialize_vault: generate_salt, ph.hash, set_master_config
initialize_vault_store(p) ==
    /\ pc[p] = "init_store"
    /\ salt_ctr < MaxSalt
    /\ db_lock = 0
    /\ salt_ctr' = salt_ctr + 1
    /\ db' = set_master_config(db, salt_ctr + 1, PhHash(loc[p].password))
    /\ Goto(p, "init_unlock", [loc[p] EXCEPT !.salt = salt_ctr + 1])
    /\ UNCHANGED <<master_key, db_lock, snapshots, clock, nonce_ctr>>

\* initialize_vault: the auto-unlock crypto.unlock(req.password, salt)
initialize_vault_unlock(p) ==
    /\ pc[p] = "init_unlock"
    /\ master_key' = unlock(master_key, loc[p].password, loc[p].salt)
    /\ Finish(p, "ok", loc[p])
    /\ UNCHANGED <<db, db_lock, snapshots, clock, salt_ctr, nonce_ctr>>

\* mutant: a rejected unlock locks the vault
OnUnlockRejected_Locks(key) == NoKey

\* unlock_vault raises its HTTPException before crypto.unlock is reached:
\* the key manager is left as it is
OnUnlockRejected(key) == key

\* POST /api/unlock arrives; unlock_vault: get_master_config, the
\* not-initialized check and ph.verify
unlock_vault_verify(p) ==
    /\ Arrives(p)
    /\ \E pw \in Passwords :
         LET l == [Loc0 EXCEPT !.op = "unlock", !.password = pw]
             cfg == get_master_config(db)
         IN IF cfg.salt = NoSalt \/ cfg.pw_hash = NoHash
            THEN /\ Finish(p, "NotInitialized", l)
                 /\ master_key' = OnUnlockRejected(master_key)
            ELSE IF ~PhVerify(cfg.pw_hash, pw)
            THEN /\ Finish(p, "InvalidPassword", l)
                 /\ master_key' = OnUnlockRejected(master_key)
            ELSE /\ Goto(p, "unlock_derive", [l EXCEPT !.salt = cfg.salt])
                 /\ master_key' = master_key
    /\ UNCHANGED <<db, db_lock, snapshots, clock, salt_ctr, nonce_ctr>>

\* unlock_vault: crypto.unlock(req.password, salt)
unlock_vault_derive(p) ==
    /\ pc[p] = "unlock_derive"
    /\ master_key' = unlock(master_key, loc[p].password, loc[p].salt)
    /\ Finish(p, "ok", loc[p])
    /\ UNCHANGED <<db, db_lock, snapshots, clock, salt_ctr, nonce_ctr>>

\* POST /api/lock arrives; lock_vault
lock_vault(p) ==
    /\ Arrives(p)
    /\ master_key' = lock(master_key)
    /\ Finish(p, "ok", [Loc0 EXCEPT !.op = "lock"])
    /\ UNCHANGED <<db, db_lock, snapshots, clock, salt_ctr, nonce_ctr>>

\* the response has been sent; the slot is free again
Return(p) ==
    /\ pc[p] = "done"
    /\ Goto(p, "idle", Loc0)
    /\ UNCHANGED <<master_key, db, db_lock, snapshots, clock, salt_ctr,
                   nonce_ctr>>

(* ---------------------------- list and add ---------------------------- *)

\* GET /api/passwords arrives; Depends(get_crypto)
list_passwords_guard(p) ==
    /\ Arrives(p)
    /\ get_crypto(p, "list_rows", [Loc0 EXCEPT !.op = "list"])
    /\ UNCHANGED <<master_key, db, db_lock, snapshots, clock, salt_ctr,
                   nonce_ctr>>

\* list_passwords: rows = db_manager.get_passwords()
list_passwords_rows(p) ==
    /\ pc[p] = "list_rows"
    /\ LET rows == get_passwords(db) IN
         IF rows = <<>>
         THEN Finish(p, "ok", loc[p])
         ELSE Goto(p, "list_decrypt", [loc[p] EXCEPT !.rows = rows, !.i = 1])
    /\ UNCHANGED <<master_key, db, db_lock, snapshots, clock, salt_ctr,
                   nonce_ctr>>

\* the entry list_passwords appends for a row that decrypts
ListEntry(key, row) ==
    [id |-> row.id, service |-> row.service, username |-> row.username,
     password |-> decrypt(key, row.nonce, row.encrypted_data)]

\* mutant: the except branch only continues
PrintSkipped_Silent(stdout, id) == stdout

\* the except branch of list_passwords: print(f"Failed to decrypt ID {id}: ..."),
\* a line on the process's standard output
PrintSkipped(stdout, id) == Append(stdout, id)

\* list_passwords: one turn of the loop; a row that fails is printed and skipped
list_passwords_decrypt(p) ==
    /\ pc[p] = "list_decrypt"
    /\ LET l == loc[p]
           row == l.rows[l.i]
           l2 == IF CanDecrypt(master_key, row.nonce, row.encrypted_data)
                 THEN [l EXCEPT !.out = Append(@, ListEntry(master_key, row)), !.i = @ + 1]
                 ELSE [l EXCEPT !.stdout = PrintSkipped(@, row.id), !.i = @ + 1]
       IN IF l.i = Len(l.rows)
          THEN Finish(p, "ok", l2)
          ELSE Goto(p, "list_decrypt", l2)
    /\ UNCHANGED <<master_key, db, db_lock, snapshots, clock, salt_ctr,
                   nonce_ctr>>

\* POST /api/passwords arrives; Depends(get_crypto)
add_password_guard(p) ==
    /\ Arrives(p)
    /\ Len(db.passwords) + PendingAdds < MaxRows
    /\ \E e \in AddInputs :
         get_crypto(p, "add_encrypt", [Loc0 EXCEPT !.op = "add", !.entry = e])
    /\ UNCHANGED <<master_key, db, db_lock, snapshots, clock, salt_ctr,
                   nonce_ctr>>

\* add_password: c.encrypt(entry.password); ValueError when the key is gone
add_password_encrypt(p) ==
    /\ pc[p] = "add_encrypt"
    /\ IF master_key = NoKey
       THEN /\ Finish(p, "Error", loc[p])
            /\ UNCHANGED nonce_ctr
       ELSE /\ nonce_ctr < MaxNonce
            /\ nonce_ctr' = nonce_ctr + 1
            /\ Goto(p, "add_snapshot",
                    [loc[p] EXCEPT !.enc =
                        <<encrypt(master_key, nonce_ctr + 1, loc[p].entry.password)>>])
    /\ UNCHANGED <<master_key, db, db_lock, snapshots, clock, salt_ctr>>

\* store_password: create_snapshot()
store_password_snapshot(p) ==
    /\ pc[p] = "add_snapshot"
    /\ snapshots' = create_snapshot(snapshots, db, clock)
    /\ Goto(p, "add_insert", loc[p])
    /\ UNCHANGED <<master_key, db, db_lock, clock, salt_ctr, nonce_ctr>>

\* the "id" of add_password's response: the literal 0
PlaceholderId == 0

\* store_password: INSERT and commit (the generated id is not read back);
\* add_password then returns the placeholder id
store_password_insert(p) ==
    /\ pc[p] = "add_insert"
    /\ db_lock = 0
    /\ LET l == loc[p] IN
         db' = InsertPassword(db, l.entry.service, l.entry.username,
                              l.enc[1].ciphertext, l.enc[1].nonce)
    /\ Finish(p, "ok", [loc[p] EXCEPT !.id = PlaceholderId])
    /\ UNCHANGED <<master_key, db_lock, snapshots, clock, salt_ctr, nonce_ctr>>

(* ------------------------------- import ------------------------------- *)

\* str.lower() of a field name of the modelled headers
Lower(f) ==
    IF f = "Name" THEN "name" ELSE IF f = "Password" THEN "password" ELSE f

\* fieldnames = [f.lower() for f in csv_reader.fieldnames]
Fieldnames(header) == {Lower(f) : f \in header}

\* candidates: the field names import accepts for each target column
candidates ==
    [service  |-> {"url", "name", "title", "location", "website"},
     username |-> {"username", "user", "email", "login"},
     password |-> {"password", "pass", "pword"}]

\* target in map_cols
HasColumn(header, target) == candidates[target] \cap Fieldnames(header) # {}

\* mutant: rows with an empty password are imported too
SkipsRow_Never(pwd) == FALSE

\* `if not pwd: continue`
SkipsRow(pwd) == pwd = "" \/ pwd = None

\* svc = row.get(map_cols['service'], '') or "Imported", when mapped
ImportService(header, row) ==
    IF HasColumn(header, "service") /\ row.service # "" /\ row.service # None
    THEN row.service ELSE "Imported"

\* usr = row.get(map_cols['username'], ''), when mapped, else ""
ImportUsername(header, row) ==
    IF HasColumn(header, "username") THEN row.username ELSE ""

\* the rows of csv that the loop of import_passwords does not skip
ImportRows(csv) == SelectSeq(csv.rows, LAMBDA r : ~SkipsRow(r.password))

\* batch_entries: row k that is not skipped is encrypted with the k-th new nonce
BatchEntries(key, csv, first_nonce) ==
    LET rows == ImportRows(csv) IN
      [k \in 1..Len(rows) |->
          LET e == encrypt(key, first_nonce + k, rows[k].password) IN
            [service |-> ImportService(csv.header, rows[k]),
             username |-> ImportUsername(csv.header, rows[k]),
             encrypted_data |-> e.ciphertext, nonce |-> e.nonce]]

\* POST /api/import arrives with a CSV file; Depends(get_crypto)
import_passwords_guard(p) ==
    /\ Arrives(p)
    /\ \E header \in CsvHeaders, n \in 1..MaxCsv : \E rows \in [1..n -> CsvRows] :
         LET csv == [header |-> header, rows |-> rows] IN
           /\ Len(db.passwords) + Len(ImportRows(csv)) <= MaxRows
           /\ nonce_ctr + Len(ImportRows(csv)) <= MaxNonce
           /\ get_crypto(p, "imp_read", [Loc0 EXCEPT !.op = "import", !.csv = csv])
    /\ UNCHANGED <<master_key, db, db_lock, snapshots, clock, salt_ctr,
                   nonce_ctr>>

\* import_passwords: DictReader, the column mapping and the loop that builds
\* batch_entries; without a password column the HTTPException(400) is raised
\* inside the try and answered as 500 by the except branch
import_passwords_read(p) ==
    /\ pc[p] = "imp_read"
    /\ LET l == loc[p]
           n == Len(ImportRows(l.csv))
       IN IF ~HasColumn(l.csv.header, "password") \/ (n > 0 /\ master_key = NoKey)
          THEN /\ Finish(p, "ImportFailed", l)
               /\ UNCHANGED nonce_ctr
          ELSE /\ nonce_ctr' = nonce_ctr + n
               /\ LET l2 == [l EXCEPT !.enc = BatchEntries(master_key, l.csv, nonce_ctr),
                                       !.i = 1]
                  IN IF n = 0 THEN Finish(p, "ok", l2) ELSE Goto(p, "imp_snapshot", l2)
    /\ UNCHANGED <<master_key, db, db_lock, snapshots, clock, salt_ctr>>

\* the store loop of import_passwords: store_password, create_snapshot()
import_store_snapshot(p) ==
    /\ pc[p] = "imp_snapshot"
    /\ snapshots' = create_snapshot(snapshots, db, clock)
    /\ Goto(p, "imp_insert", loc[p])
    /\ UNCHANGED <<master_key, db, db_lock, clock, salt_ctr, nonce_ctr>>

\* the store loop of import_passwords: store_password, INSERT and commit,
\* count += 1; a NULL username violates NOT NULL and ends the import with 500
import_store_insert(p) ==
    /\ pc[p] = "imp_insert"
    /\ db_lock = 0
    /\ LET l == loc[p]
           entry == l.enc[l.i]
       IN IF entry.username = None
          THEN /\ Finish(p, "ImportFailed", l)
               /\ UNCHANGED db
          ELSE /\ db' = InsertPassword(db, entry.service, entry.username,
                                       entry.encrypted_data, entry.nonce)
               /\ LET l2 == [l EXCEPT !.count = @ + 1, !.i = @ + 1] IN
                    IF l.i = Len(l.enc)
                    THEN Finish(p, "ok", l2)
                    ELSE Goto(p, "imp_snapshot", l2)
    /\ UNCHANGED <<master_key, db_lock, snapshots, clock, salt_ctr, nonce_ctr>>

\* the store loop of import_passwords: store_password raises (disk full, I/O
\* error); the except branch answers 500, the rows stored so far stay
import_store_fails(p) ==
    /\ pc[p] \in {"imp_snapshot", "imp_insert"}
    /\ Finish(p, "ImportFailed", loc[p])
    /\ UNCHANGED <<master_key, db, db_lock, snapshots, clock, salt_ctr,
                   nonce_ctr>>

(* ---------------------------- attachments ----------------------------- *)

\* POST /api/passwords/{entry_id}/attachments arrives; Depends(get_crypto)
upload_attachment_guard(p) ==
    /\ Arrives(p)
    /\ db.att_seq + PendingUploads < MaxAtt
    /\ \E f \in Files, entry_id \in 1..MaxRows :
         get_crypto(p, "up_encrypt",
                    [Loc0 EXCEPT !.op = "upload", !.file = f, !.id = entry_id])
    /\ UNCHANGED <<master_key, db, db_lock, snapshots, clock, salt_ctr,
                   nonce_ctr>>

\* upload_attachment: c.encrypt_bytes(content); any exception is a 500
upload_attachment_encrypt(p) ==
    /\ pc[p] = "up_encrypt"
    /\ IF master_key = NoKey
       THEN /\ Finish(p, "Error", loc[p])
            /\ UNCHANGED nonce_ctr
       ELSE /\ nonce_ctr < MaxNonce
            /\ nonce_ctr' = nonce_ctr + 1
            /\ Goto(p, "up_snapshot",
                    [loc[p] EXCEPT !.enc =
                        <<encrypt_bytes(master_key, nonce_ctr + 1, loc[p].file.content)>>])
    /\ UNCHANGED <<master_key, db, db_lock, snapshots, clock, salt_ctr>>

\* add_attachment: create_snapshot()
add_attachment_snapshot(p) ==
    /\ pc[p] = "up_snapshot"
    /\ snapshots' = create_snapshot(snapshots, db, clock)
    /\ Goto(p, "up_insert", loc[p])
    /\ UNCHANGED <<master_key, db, db_lock, clock, salt_ctr, nonce_ctr>>

\* add_attachment: INSERT and commit
add_attachment_insert(p) ==
    /\ pc[p] = "up_insert"
    /\ db_lock = 0
    /\ LET l == loc[p] IN
         db' = InsertAttachment(db, l.id, l.file.filename,
                                l.enc[1].ciphertext, l.enc[1].nonce)
    /\ Finish(p, "ok", loc[p])
    /\ UNCHANGED <<master_key, db_lock, snapshots, clock, salt_ctr, nonce_ctr>>

\* GET /api/attachments/{attachment_id} arrives; Depends(get_crypto)
download_attachment_guard(p) ==
    /\ Arrives(p)
    /\ \E attachment_id \in 1..MaxAtt :
         get_crypto(p, "dl_row", [Loc0 EXCEPT !.op = "download", !.id = attachment_id])
    /\ UNCHANGED <<master_key, db, db_lock, snapshots, clock, salt_ctr,
                   nonce_ctr>>

\* download_attachment: row = db_manager.get_attachment(attachment_id)
download_attachment_row(p) ==
    /\ pc[p] = "dl_row"
    /\ IF ~HasAttachment(db, loc[p].id)
       THEN Finish(p, "NotFound", loc[p])
       ELSE Goto(p, "dl_decrypt", [loc[p] EXCEPT !.rows = <<get_attachment(db, loc[p].id)>>])
    /\ UNCHANGED <<master_key, db, db_lock, snapshots, clock, salt_ctr,
                   nonce_ctr>>

\* download_attachment: c.decrypt_bytes(row nonce, row data), 500 when it raises
download_attachment_decrypt(p) ==
    /\ pc[p] = "dl_decrypt"
    /\ LET row == loc[p].rows[1] IN
         IF CanDecrypt(master_key, row.nonce, row.encrypted_data)
         THEN Finish(p, "ok", [loc[p] EXCEPT !.out =
                  <<decrypt_bytes(master_key, row.nonce, row.encrypted_data)>>])
         ELSE Finish(p, "DecryptionFailed", loc[p])
    /\ UNCHANGED <<master_key, db, db_lock, snapshots, clock, salt_ctr,
                   nonce_ctr>>

\* GET /api/passwords/{entry_id}/attachments arrives; Depends(get_crypto)
list_attachments_guard(p) ==
    /\ Arrives(p)
    /\ \E entry_id \in 1..MaxRows :
         get_crypto(p, "la_rows", [Loc0 EXCEPT !.op = "list_att", !.id = entry_id])
    /\ UNCHANGED <<master_key, db, db_lock, snapshots, clock, salt_ctr,
                   nonce_ctr>>

\* list_attachments: rows = db_manager.get_attachments(entry_id); id and
\* filename of each row are returned, nothing is decrypted
list_attachments_rows(p) ==
    /\ pc[p] = "la_rows"
    /\ Finish(p, "ok", [loc[p] EXCEPT !.out = get_attachments(db, loc[p].id)])
    /\ UNCHANGED <<master_key, db, db_lock, snapshots, clock, salt_ctr,
                   nonce_ctr>>

\* DELETE /api/attachments/{attachment_id} arrives; Depends(get_crypto)
delete_attachment_guard(p) ==
    /\ Arrives(p)
    /\ \E attachment_id \in 1..MaxAtt :
         get_crypto(p, "da_snapshot",
                    [Loc0 EXCEPT !.op = "delete_att", !.id = attachment_id])
    /\ UNCHANGED <<master_key, db, db_lock, snapshots, clock, salt_ctr,
                   nonce_ctr>>

\* db_manager.delete_attachment: create_snapshot()
delete_attachment_snapshot(p) ==
    /\ pc[p] = "da_snapshot"
    /\ snapshots' = create_snapshot(snapshots, db, clock)
    /\ Goto(p, "da_delete", loc[p])
    /\ UNCHANGED <<master_key, db, db_lock, clock, salt_ctr, nonce_ctr>>

\* db_manager.delete_attachment: DELETE and commit
delete_attachment_delete(p) ==
    /\ pc[p] = "da_delete"
    /\ db_lock = 0
    /\ db' = DeleteAttachment(db, loc[p].id)
    /\ Finish(p, "ok", loc[p])
    /\ UNCHANGED <<master_key, db_lock, snapshots, clock, salt_ctr, nonce_ctr>>

(* ------------- storage operations that no handler calls --------------- *)

\* db_manager.update_password is called with a record's id, a new service
\* and username, and the ciphertext and nonce the record already has (no key
\* is needed to pass them on); it begins with create_snapshot()
update_password_snapshot(p) ==
    /\ Arrives(p)
    /\ \E pw_id \in 1..MaxRows, e \in AddInputs :
         Goto(p, "upd_update", [Loc0 EXCEPT !.op = "update", !.id = pw_id, !.entry = e])
    /\ snapshots' = create_snapshot(snapshots, db, clock)
    /\ UNCHANGED <<master_key, db, db_lock, clock, salt_ctr, nonce_ctr>>

\* db_manager.update_password: UPDATE and commit
update_password_update(p) ==
    /\ pc[p] = "upd_update"
    /\ db_lock = 0
    /\ LET l == loc[p]
           row == IF l.id \in 1..Len(db.passwords) THEN db.passwords[l.id] ELSE NoRow
       IN db' = UpdatePasswordRow(db, l.id, l.entry.service, l.entry.username,
                                  row.encrypted_data, row.nonce)
    /\ Finish(p, "ok", loc[p])
    /\ UNCHANGED <<master_key, db_lock, snapshots, clock, salt_ctr, nonce_ctr>>

(* ------------------------------ rotation ------------------------------ *)

\* POST /api/change-password arrives; Depends(get_crypto)
change_master_password_guard(p) ==
    /\ Arrives(p)
    /\ \E cur \in Passwords, new \in Passwords :
         get_crypto(p, "rot_verify",
                    [Loc0 EXCEPT !.op = "rotate", !.password = cur, !.new_password = new])
    /\ UNCHANGED <<master_key, db, db_lock, snapshots, clock, salt_ctr,
                   nonce_ctr>>

\* change_master_password step 1: ph.verify(stored_hash, req.current_password)
change_master_password_verify(p) ==
    /\ pc[p] = "rot_verify"
    /\ IF ~PhVerify(get_master_config(db).pw_hash, loc[p].password)
       THEN Finish(p, "InvalidPassword", loc[p])
       ELSE Goto(p, "rot_rows", loc[p])
    /\ UNCHANGED <<master_key, db, db_lock, snapshots, clock, salt_ctr,
                   nonce_ctr>>

\* change_master_password step 2: rows = db_manager.get_passwords()
change_master_password_rows(p) ==
    /\ pc[p] = "rot_rows"
    /\ LET rows == get_passwords(db) IN
         Goto(p, IF rows = <<>> THEN "rot_derive" ELSE "rot_decrypt",
              [loc[p] EXCEPT !.rows = rows, !.i = 1])
    /\ UNCHANGED <<master_key, db, db_lock, snapshots, clock, salt_ctr,
                   nonce_ctr>>

\* mutant: the loop skips the row, as the loop of list_passwords does
OnRotationDecryptFailure_Skip == "skip"

\* what the decryption loop of change_master_password does with a row that
\* does not decrypt: it raises HTTPException, which ends the rotation
OnRotationDecryptFailure == "abort"

\* change_master_password step 3: one turn of the decryption loop
change_master_password_decrypt(p) ==
    /\ pc[p] = "rot_decrypt"
    /\ LET l == loc[p]
           row == l.rows[l.i]
           next == IF l.i = Len(l.rows) THEN "rot_derive" ELSE "rot_decrypt"
       IN IF CanDecrypt(master_key, row.nonce, row.encrypted_data)
          THEN Goto(p, next,
                    [l EXCEPT !.i = @ + 1,
                              !.out = Append(@,
                                 [id |-> row.id,
                                  plaintext |-> decrypt(master_key, row.nonce,
                                                        row.encrypted_data)])])
          ELSE IF OnRotationDecryptFailure = "abort"
          THEN Finish(p, "RotationAborted", l)
          ELSE Goto(p, next, [l EXCEPT !.i = @ + 1])
    /\ UNCHANGED <<master_key, db, db_lock, snapshots, clock, salt_ctr,
                   nonce_ctr>>

\* mutant: the new key is derived on the global CryptoManager
GlobalKeyAfterTempUnlock_Global(key, new_key) == new_key

\* the global master_key after temp_crypto.unlock(new_password, new_salt):
\* temp_crypto is a CryptoManager of its own, the global one is not touched
GlobalKeyAfterTempUnlock(key, new_key) == key

\* mutant: every entry is re-encrypted from the plaintext of the first one
ReEncrypt_FirstPlaintext(temp_key, entries, first_nonce) ==
    [k \in 1..Len(entries) |->
        LET e == encrypt(temp_key, first_nonce + k, entries[1].plaintext) IN
          [id |-> entries[k].id, encrypted_data |-> e.ciphertext, nonce |-> e.nonce]]

\* mutant: no nonce is generated, every entry is encrypted with the nonce
\* that was handed out last
ReEncrypt_ReusesNonce(temp_key, entries, first_nonce) ==
    [k \in 1..Len(entries) |->
        LET e == encrypt(temp_key, first_nonce, entries[k].plaintext) IN
          [id |-> entries[k].id, encrypted_data |-> e.ciphertext, nonce |-> e.nonce]]

\* step 6: re_encrypted_entries, entry k encrypted with the k-th new nonce
ReEncrypt(temp_key, entries, first_nonce) ==
    [k \in 1..Len(entries) |->
        LET e == encrypt(temp_key, first_nonce + k, entries[k].plaintext) IN
          [id |-> entries[k].id, encrypted_data |-> e.ciphertext, nonce |-> e.nonce]]

\* change_master_password steps 4 to 6 (new salt and hash, temp_crypto,
\* re-encryption: all local), then create_snapshot() of the batch update
change_master_password_reencrypt(p) ==
    /\ pc[p] = "rot_derive"
    /\ salt_ctr < MaxSalt
    /\ nonce_ctr + Len(loc[p].out) <= MaxNonce
    /\ LET l == loc[p]
           new_salt == salt_ctr + 1
           temp_key == unlock(NoKey, l.new_password, new_salt)
       IN /\ master_key' = GlobalKeyAfterTempUnlock(master_key, temp_key)
          /\ Goto(p, "rot_tx",
                  [l EXCEPT !.salt = new_salt,
                            !.pw_hash = PhHash(l.new_password),
                            !.temp_key = temp_key,
                            !.enc = ReEncrypt(temp_key, l.out, nonce_ctr)])
    /\ salt_ctr' = salt_ctr + 1
    /\ nonce_ctr' = nonce_ctr + Len(loc[p].out)
    /\ snapshots' = create_snapshot(snapshots, db, clock)
    /\ UNCHANGED <<db, db_lock, clock>>

\* number of statements of the batch transaction: one UPDATE per entry
\* (executemany), then the two INSERT OR REPLACE into config
TxLen(l) == Len(l.enc) + 2

\* the k-th statement of the batch transaction applied to working copy d
ExecStatement(d, l, k) ==
    IF k <= Len(l.enc)
    THEN UpdatePassword(d, l.enc[k].id, l.enc[k].encrypted_data, l.enc[k].nonce)
    ELSE IF k = Len(l.enc) + 1
    THEN ReplaceSalt(d, l.salt)
    ELSE ReplaceHash(d, l.pw_hash)

\* mutant: the connection is in autocommit mode, each statement is durable
VisibleDuringTx_Autocommit(d, tx) == tx

\* what other connections read while a statement of an open transaction has
\* run: the committed content d, not the working copy tx
VisibleDuringTx(d, tx) == d

\* mutant: the commit keeps the config statements and loses the row updates
Commit_ConfigOnly(d, tx) == [tx EXCEPT !.passwords = d.passwords]

\* conn.commit(): the working copy becomes the committed content
Commit(d, tx) == tx

\* mutant: the except branch commits what has run so far
Rollback_KeepsWrites(d, tx) == tx

\* conn.rollback() in the except branch: the working copy is dropped
Rollback(d, tx) == d

\* batch_update_passwords_and_config: the next statement of the transaction
\* runs; the first one begins the transaction and takes the write lock
batch_update_statement(p) ==
    /\ pc[p] = "rot_tx"
    /\ db_lock \in {0, p}
    /\ LET l == loc[p]
           k == l.txi + 1
           tx == ExecStatement(IF l.txi = 0 THEN db ELSE l.tx, l, k)
       IN /\ db' = VisibleDuringTx(db, tx)
          /\ Goto(p, IF k = TxLen(l) THEN "rot_commit" ELSE "rot_tx",
                  [l EXCEPT !.tx = tx, !.txi = k])
    /\ db_lock' = p
    /\ UNCHANGED <<master_key, snapshots, clock, salt_ctr, nonce_ctr>>

\* batch_update_passwords_and_config: the next statement raises (disk full,
\* I/O error, database locked); rollback, close, re-raise; the handler
\* answers 500
batch_update_statement_fails(p) ==
    /\ pc[p] = "rot_tx"
    /\ db' = Rollback(db, IF loc[p].txi = 0 THEN db ELSE loc[p].tx)
    /\ db_lock' = IF db_lock = p THEN 0 ELSE db_lock
    /\ Finish(p, "StorageError", [loc[p] EXCEPT !.tx = EmptyDb, !.txi = 0])
    /\ UNCHANGED <<master_key, snapshots, clock, salt_ctr, nonce_ctr>>

\* batch_update_passwords_and_config: conn.commit() succeeds
batch_update_commit(p) ==
    /\ pc[p] = "rot_commit"
    /\ db' = Commit(db, loc[p].tx)
    /\ db_lock' = 0
    /\ Goto(p, "rot_swap", [loc[p] EXCEPT !.tx = EmptyDb, !.txi = 0])
    /\ UNCHANGED <<master_key, snapshots, clock, salt_ctr, nonce_ctr>>

\* batch_update_passwords_and_config: conn.commit() raises; rollback, 500
batch_update_commit_fails(p) ==
    /\ pc[p] = "rot_commit"
    /\ db' = Rollback(db, loc[p].tx)
    /\ db_lock' = 0
    /\ Finish(p, "StorageError", [loc[p] EXCEPT !.tx = EmptyDb, !.txi = 0])
    /\ UNCHANGED <<master_key, snapshots, clock, salt_ctr, nonce_ctr>>

\* change_master_password step 8: c.unlock(req.new_password, new_salt)
change_master_password_swap(p) ==
    /\ pc[p] = "rot_swap"
    /\ master_key' = unlock(master_key, loc[p].new_password, loc[p].salt)
    /\ Finish(p, "ok", loc[p])
    /\ UNCHANGED <<db, db_lock, snapshots, clock, salt_ctr, nonce_ctr>>

(* --------------------------- the environment -------------------------- *)

\* a second of wall-clock time passes
Tick ==
    /\ clock < MaxClock
    /\ clock' = clock + 1
    /\ UNCHANGED <<master_key, db, db_lock, snapshots, salt_ctr, nonce_ctr, pc, loc>>

\* a stored ciphertext byte is flipped out of band
Corrupt ==
    /\ db_lock = 0
    /\ \E id \in 1..Len(db.passwords) :
         /\ db.passwords[id].encrypted_data.ok
         /\ db' = [db EXCEPT !.passwords[id].encrypted_data = Tamper(@)]
    /\ UNCHANGED <<master_key, db_lock, snapshots, clock, salt_ctr, nonce_ctr,
                   pc, loc>>

\* the process terminates and is started again: CryptoManager.__init__ leaves
\* master_key None, requests in flight are gone, an open transaction is
\* rolled back by SQLite's journal
Crash ==
    /\ ~AllIdle \/ master_key # NoKey
    /\ master_key' = NoKey
    /\ db_lock' = 0
    /\ pc' = [p \in Procs |-> "idle"]
    /\ loc' = [p \in Procs |-> Loc0]
    /\ UNCHANGED <<db, snapshots, clock, salt_ctr, nonce_ctr>>

(* ------------------------- the specifications ------------------------- *)

\* a request of the secrets API other than an add arrives at slot p and takes
\* its first step
StartSecrets(p) ==
    \/ initialize_vault_check(p)
    \/ unlock_vault_verify(p)
    \/ lock_vault(p)
    \/ list_passwords_guard(p)
    \/ change_master_password_guard(p)

\* a request of the attachments API arrives at slot p and takes its first step
StartAttachments(p) ==
    \/ upload_attachment_guard(p)
    \/ download_attachment_guard(p)
    \/ list_attachments_guard(p)
    \/ delete_attachment_guard(p)

\* the secrets request at slot p takes its next step
StepSecrets(p) ==
    \/ initialize_vault_store(p)
    \/ initialize_vault_unlock(p)
    \/ unlock_vault_derive(p)
    \/ list_passwords_rows(p)
    \/ list_passwords_decrypt(p)
    \/ add_password_encrypt(p)
    \/ store_password_snapshot(p)
    \/ store_password_insert(p)
    \/ change_master_password_verify(p)
    \/ change_master_password_rows(p)
    \/ change_master_password_decrypt(p)
    \/ change_master_password_reencrypt(p)
    \/ batch_update_statement(p)
    \/ batch_update_statement_fails(p)
    \/ batch_update_commit(p)
    \/ batch_update_commit_fails(p)
    \/ change_master_password_swap(p)
    \/ Return(p)

\* the attachments request at slot p takes its next step
StepAttachments(p) ==
    \/ upload_attachment_encrypt(p)
    \/ add_attachment_snapshot(p)
    \/ add_attachment_insert(p)
    \/ download_attachment_row(p)
    \/ download_attachment_decrypt(p)
    \/ list_attachments_rows(p)
    \/ delete_attachment_snapshot(p)
    \/ delete_attachment_delete(p)

\* the thread pool: requests of the secrets API served concurrently, and the
\* process may be killed and restarted at any moment
Next ==
    \/ \E p \in Procs : StartSecrets(p)
    \/ \E p \in Procs :
         Len(db.passwords) + PendingAdds < ConcRows /\ add_password_guard(p)
    \/ \E p \in Procs : StepSecrets(p)
    \/ Crash

Spec == Init /\ [][Next]_vars

\* one client of the secrets API that waits for each response before it sends
\* the next request; between requests a stored ciphertext may be corrupted,
\* and the process may be killed and restarted at any moment
SeqNext ==
    \/ \E p \in Procs : AllIdle /\ StartSecrets(p)
    \/ \E p \in Procs : AllIdle /\ add_password_guard(p)
    \/ \E p \in Procs : StepSecrets(p)
    \/ AllIdle /\ Corrupt
    \/ Crash

SeqSpec == Init /\ [][SeqNext]_vars

\* the same client, with the wall clock running
ClockNext ==
    \/ SeqNext
    \/ Tick

ClockSpec == Init /\ [][ClockNext]_vars

\* one client of the whole API, attachments included, that waits for each
\* response before it sends the next request
AttNext ==
    \/ \E p \in Procs : AllIdle /\ StartSecrets(p)
    \/ \E p \in Procs : AllIdle /\ add_password_guard(p)
    \/ \E p \in Procs : AllIdle /\ StartAttachments(p)
    \/ \E p \in Procs : StepSecrets(p)
    \/ \E p \in Procs : StepAttachments(p)

AttSpec == Init /\ [][AttNext]_vars

\* one client that initialises, locks and unlocks the vault, adds records
\* and works with their attachments, and never rotates the master password
FilesNext ==
    \/ \E p \in Procs : AllIdle /\ initialize_vault_check(p)
    \/ \E p \in Procs : AllIdle /\ unlock_vault_verify(p)
    \/ \E p \in Procs : AllIdle /\ lock_vault(p)
    \/ \E p \in Procs : AllIdle /\ add_password_guard(p)
    \/ \E p \in Procs : AllIdle /\ StartAttachments(p)
    \/ \E p \in Procs : initialize_vault_store(p)
    \/ \E p \in Procs : initialize_vault_unlock(p)
    \/ \E p \in Procs : unlock_vault_derive(p)
    \/ \E p \in Procs : add_password_encrypt(p)
    \/ \E p \in Procs : store_password_snapshot(p)
    \/ \E p \in Procs : store_password_insert(p)
    \/ \E p \in Procs : StepAttachments(p)
    \/ \E p \in Procs : Return(p)

FilesSpec == Init /\ [][FilesNext]_vars

\* the same client, which may also call the storage layer's update_password
CoreNext ==
    \/ AttNext
    \/ \E p \in Procs : AllIdle /\ update_password_snapshot(p)
    \/ \E p \in Procs : update_password_update(p)

CoreSpec == Init /\ [][CoreNext]_vars

\* one client that initialises, locks and unlocks the vault, imports CSV
\* files and lists the records
ImportNext ==
    \/ \E p \in Procs : AllIdle /\ initialize_vault_check(p)
    \/ \E p \in Procs : AllIdle /\ unlock_vault_verify(p)
    \/ \E p \in Procs : AllIdle /\ lock_vault(p)
    \/ \E p \in Procs : AllIdle /\ list_passwords_guard(p)
    \/ \E p \in Procs : AllIdle /\ import_passwords_guard(p)
    \/ \E p \in Procs : initialize_vault_store(p)
    \/ \E p \in Procs : initialize_vault_unlock(p)
    \/ \E p \in Procs : unlock_vault_derive(p)
    \/ \E p \in Procs : list_passwords_rows(p)
    \/ \E p \in Procs : list_passwords_decrypt(p)
    \/ \E p \in Procs : import_passwords_read(p)
    \/ \E p \in Procs : import_store_snapshot(p)
    \/ \E p \in Procs : import_store_insert(p)
    \/ \E p \in Procs : import_store_fails(p)
    \/ \E p \in Procs : Return(p)

ImportSpec == Init /\ [][ImportNext]_vars

\* the rotation about to start finds a salt and a nonce for each record
RotateWithinBounds ==
    /\ salt_ctr < MaxSalt
    /\ nonce_ctr + Len(db.passwords) <= MaxNonce

\* the rotation request at slot p takes its next step
RotateStep(p) ==
    \/ change_master_password_verify(p)
    \/ change_master_password_rows(p)
    \/ change_master_password_decrypt(p)
    \/ change_master_password_reencrypt(p)
    \/ batch_update_statement(p)
    \/ batch_update_statement_fails(p)
    \/ batch_update_commit(p)
    \/ batch_update_commit_fails(p)
    \/ change_master_password_swap(p)

\* one client that initialises, locks and unlocks the vault, adds records
\* and rotates the master password, served by a process that stays up;
\* between requests a stored ciphertext may be corrupted
LiveNext ==
    \/ \E p \in Procs : AllIdle /\ initialize_vault_check(p)
    \/ \E p \in Procs : AllIdle /\ unlock_vault_verify(p)
    \/ \E p \in Procs : AllIdle /\ lock_vault(p)
    \/ \E p \in Procs : AllIdle /\ add_password_guard(p)
    \/ \E p \in Procs :
         AllIdle /\ RotateWithinBounds /\ change_master_password_guard(p)
    \/ \E p \in Procs : initialize_vault_store(p)
    \/ \E p \in Procs : initialize_vault_unlock(p)
    \/ \E p \in Procs : unlock_vault_derive(p)
    \/ \E p \in Procs : add_password_encrypt(p)
    \/ \E p \in Procs : store_password_snapshot(p)
    \/ \E p \in Procs : store_password_insert(p)
    \/ \E p \in Procs : RotateStep(p)
    \/ \E p \in Procs : Return(p)
    \/ AllIdle /\ Corrupt

\* the worker thread that serves a rotation request is scheduled until the
\* handler returns: the handler has no wait, its loops run over the rows read
\* and the statements of one transaction
LiveSpec == Init /\ [][LiveNext]_vars /\ \A p \in Procs : WF_vars(RotateStep(p))

\* one client that initialises the vault and then only encrypts: it adds
\* records, uploads attachments and rotates the master password
EncryptNext ==
    \/ \E p \in Procs : AllIdle /\ initialize_vault_check(p)
    \/ \E p \in Procs : AllIdle /\ add_password_guard(p)
    \/ \E p \in Procs : AllIdle /\ upload_attachment_guard(p)
    \/ \E p \in Procs : AllIdle /\ change_master_password_guard(p)
    \/ \E p \in Procs : initialize_vault_store(p)
    \/ \E p \in Procs : initialize_vault_unlock(p)
    \/ \E p \in Procs : add_password_encrypt(p)
    \/ \E p \in Procs : store_password_snapshot(p)
    \/ \E p \in Procs : store_password_insert(p)
    \/ \E p \in Procs : upload_attachment_encrypt(p)
    \/ \E p \in Procs : add_attachment_snapshot(p)
    \/ \E p \in Procs : add_attachment_insert(p)
    \/ \E p \in Procs : RotateStep(p)
    \/ \E p \in Procs : Return(p)

EncryptSpec == Init /\ [][EncryptNext]_vars

(* ---------------------- vocabulary of the properties ------------------ *)

\* slot p took a step
Stepped(p) == pc'[p] # pc[p] \/ loc'[p] # loc[p]

\* what POST /api/unlock would answer for password pw on store d
UnlockSucceeds(d, pw) ==
    /\ get_master_config(d).salt # NoSalt
    /\ get_master_config(d).pw_hash # NoHash
    /\ PhVerify(get_master_config(d).pw_hash, pw)

\* the key POST /api/unlock would install for password pw on store d
UnlockKey(d, pw) == unlock(NoKey, pw, get_master_config(d).salt)

\* every secret record of d decrypts under key
DecryptsAll(d, key) ==
    \A i \in 1..Len(d.passwords) :
       CanDecrypt(key, d.passwords[i].nonce, d.passwords[i].encrypted_data)

\* some secret record of d has been corrupted out of band
Corrupted(d) == \E i \in 1..Len(d.passwords) : ~d.passwords[i].encrypted_data.ok

\* slot p holds a rotation request that has returned with `result`
RotateDone(p, result) ==
    pc[p] = "done" /\ loc[p].op = "rotate" /\ loc[p].result = result

\* positions of a rotation before its first access to the transaction
RotateEarly == {"rot_verify", "rot_rows", "rot_decrypt", "rot_derive"}

(* ------------------------------- C1 ----------------------------------- *)

\* every step of a rotation up to and including its abort leaves the store
\* and the live key as they are
C1_Frame ==
    \A p \in Procs :
       ( /\ Stepped(p)
         /\ loc'[p].op = "rotate"
         /\ \/ pc'[p] \in RotateEarly
            \/ pc'[p] = "done" /\ loc'[p].result = "RotationAborted" )
       => db' = db /\ master_key' = master_key

\* a rotation goes past its decryption loop only if every record decrypts
\* under the live key, and when it has aborted the old password still unlocks
C1_Aborts ==
    \A p \in Procs :
       /\ (loc[p].op = "rotate" /\ pc[p] = "rot_derive")
             => DecryptsAll(db, master_key)
       /\ RotateDone(p, "RotationAborted")
             => /\ UnlockSucceeds(db, loc[p].password)
                /\ db.passwords = loc[p].rows
                /\ ~DecryptsAll(db, master_key)

\* C1: rotation atomicity. A rotation called with the correct current
\* password on a vault in which some record does not decrypt under the live
\* key ends with the abort error; none of its steps changes a secret record,
\* the persisted salt or verifier hash, or the live key, and the old password
\* still unlocks afterwards.
C1_RotationAtomicity == []C1_Aborts /\ [][C1_Frame]_vars

\* a rotation of a vault with two records, one of them corrupted, has aborted
C1_Witness ==
    \E p \in Procs :
       /\ RotateDone(p, "RotationAborted")
       /\ Len(db.passwords) = 2
       /\ Corrupted(db)
       /\ \E i \in 1..2 : db.passwords[i].encrypted_data.ok

(* ------------------------------- C2 ----------------------------------- *)

\* after the successful rotation at slot p every record it read decrypts
\* under the key of (new password, persisted salt) to its former plaintext,
\* and the new password unlocks
C2_Reencrypted(p) ==
    /\ \A i \in 1..Len(loc[p].rows) :
          LET id == loc[p].rows[i].id
              key == UnlockKey(db, loc[p].new_password)
          IN /\ id \in 1..Len(db.passwords)
             /\ CanDecrypt(key, db.passwords[id].nonce, db.passwords[id].encrypted_data)
             /\ decrypt(key, db.passwords[id].nonce, db.passwords[id].encrypted_data)
                   = Decode(loc[p].rows[i].encrypted_data.pt)
    /\ UnlockSucceeds(db, loc[p].new_password)

\* C2 as stated: rotation completeness. After rotate returns success every
\* record that existed before decrypts under the key of (newPassword, new
\* persisted salt) to its former plaintext, unlock with the old password
\* fails and unlock with the new password succeeds.
C2_AsStated ==
    \A p \in Procs :
       RotateDone(p, "ok")
          => C2_Reencrypted(p) /\ ~UnlockSucceeds(db, loc[p].password)

\* C2 amended: as stated, except that unlock with the old password fails
\* when the new password differs from it (a rotation to the same password
\* succeeds, and that password keeps unlocking).
C2_RotationCompleteness ==
    \A p \in Procs :
       RotateDone(p, "ok")
          => /\ C2_Reencrypted(p)
             /\ loc[p].new_password # loc[p].password
                   => ~UnlockSucceeds(db, loc[p].password)

\* a rotation to another password of a vault with two different records
\* has returned success
C2_Witness ==
    \E p \in Procs :
       /\ RotateDone(p, "ok")
       /\ loc[p].new_password # loc[p].password
       /\ Len(loc[p].rows) = 2
       /\ loc[p].rows[1].encrypted_data.pt # loc[p].rows[2].encrypted_data.pt

(* ------------------------------- C3 ----------------------------------- *)

\* C3: key-epoch invariant. In every reachable persisted state all stored
\* secret records are encrypted under one and the same key, the one derived
\* from the current master password and the salt of the current MasterConfig.
C3_KeyEpoch ==
    db.passwords # <<>> =>
       \E pw \in Passwords :
          /\ UnlockSucceeds(db, pw)
          /\ \A i \in 1..Len(db.passwords) :
                db.passwords[i].encrypted_data.key = UnlockKey(db, pw)

(* ------------------------------- C4 ----------------------------------- *)

\* the rotation at slot p has committed, and its config is the current one
Committed(p) ==
    /\ loc[p].op = "rotate"
    /\ pc[p] = "rot_swap" \/ RotateDone(p, "ok")
    /\ db.salt = loc[p].salt

\* C4: rotation is one critical section with respect to add. Once a rotation
\* has committed, no record encrypted under the pre-rotation key is in the
\* store: every record is under the rotation's new key.
C4_NoStaleRecord ==
    \A p \in Procs :
       Committed(p) =>
          \A i \in 1..Len(db.passwords) :
             db.passwords[i].encrypted_data.key = loc[p].temp_key

(* ------------------------------- C5 ----------------------------------- *)

\* positions at which a handler encrypts or decrypts with crypto.master_key
UsesKey == {"list_decrypt", "add_encrypt", "rot_decrypt", "up_encrypt", "dl_decrypt"}

\* some rotation has committed and has not swapped the live key yet
CommitNotSwapped ==
    \E p \in Procs :
       pc[p] = "rot_swap" /\ db.salt = loc[p].salt /\ master_key # loc[p].temp_key

\* no request encrypts or decrypts with the old key while the persisted
\* MasterConfig and records are at the new epoch
C5_Step ==
    \A q \in Procs :
       (pc[q] \in UsesKey /\ Stepped(q) /\ is_unlocked(master_key))
          => ~CommitNotSwapped

\* C5: commit and key swap are atomic from the caller's perspective: no
\* other request executes between a rotation's durable commit and the swap
\* of the live key.
C5_CommitSwapAtomic == [][C5_Step]_vars

(* ------------------------------- C6 ----------------------------------- *)

\* C6: attachments track the vault's key epoch. After a successful rotation
\* every stored attachment still decrypts under the live key.
C6_AttachmentsFollowRotation ==
    \A p \in Procs :
       RotateDone(p, "ok") =>
          \A a \in db.attachments :
             CanDecrypt(master_key, a.nonce, a.encrypted_data)

(* ------------------------------- C7 ----------------------------------- *)

\* positions of a rotation that holds its new key and has not committed
RotateUncommitted == {"rot_tx", "rot_commit"}

\* C7: swap ordering. While a rotation has derived its new key and has not
\* committed, and when it has returned the storage error, the live key is
\* not the new key; when the storage error is returned the live key is
\* still the key of the current password and the persisted salt.
C7_SwapAfterCommit ==
    \A p \in Procs :
       /\ (loc[p].op = "rotate" /\ pc[p] \in RotateUncommitted)
             => master_key # loc[p].temp_key
       /\ RotateDone(p, "StorageError")
             => /\ master_key # loc[p].temp_key
                /\ master_key = UnlockKey(db, loc[p].password)

\* a rotation of an unlocked vault is about to commit
C7_Witness ==
    \E p \in Procs :
       /\ loc[p].op = "rotate"
       /\ pc[p] = "rot_commit"
       /\ loc[p].temp_key # NoKey
       /\ is_unlocked(master_key)

(* ------------------------------- C8 ----------------------------------- *)

\* store d holds everything the rotation with locals l set out to write
FullyApplied(d, l) ==
    /\ d.salt = l.salt
    /\ d.pw_hash = l.pw_hash
    /\ \A k \in 1..Len(l.enc) :
          /\ d.passwords[l.enc[k].id].encrypted_data = l.enc[k].encrypted_data
          /\ d.passwords[l.enc[k].id].nonce = l.enc[k].nonce

\* a step taken while the batch transaction of slot p is under way either
\* leaves the persisted store as it is, or is the commit and writes it all
C8_Step ==
    \A p \in Procs :
       (loc[p].op = "rotate" /\ pc[p] \in RotateUncommitted) =>
          \/ db' = db
          \/ pc'[p] = "rot_swap" /\ FullyApplied(db', loc[p])

\* C8: storage-failure rollback. If a statement or the commit of the batch
\* transaction fails, the persisted records and MasterConfig are as before;
\* a state with only some rows or only the config updated never exists.
C8_Rollback == [][C8_Step]_vars

\* a rotation of a vault with two records has returned the storage error
C8_Witness ==
    \E p \in Procs :
       /\ RotateDone(p, "StorageError")
       /\ Len(loc[p].enc) = 2
       /\ db.passwords = loc[p].rows

(* ------------------------------- C9 ----------------------------------- *)

\* positions of a rotation that has verified the current password
RotateRunning == {"rot_rows", "rot_decrypt", "rot_derive", "rot_tx", "rot_commit",
                  "rot_swap"}

\* the passwords among pws that unlock store d and decrypt all its records
Opens(d, pws) ==
    {pw \in pws : UnlockSucceeds(d, pw) /\ DecryptsAll(d, UnlockKey(d, pw))}

\* the process is killed while slot p runs a rotation: the restarted process
\* is locked, and exactly one of the old and new passwords opens the store
C9_Step ==
    \A p \in Procs :
       ( /\ loc[p].op = "rotate"
         /\ pc[p] \in RotateRunning
         /\ pc'[p] = "idle"
         /\ ~Corrupted(db) )
       => /\ ~is_unlocked(master_key')
          /\ Cardinality(Opens(db', {loc[p].password, loc[p].new_password})) = 1

\* C9: crash consistency of rotation. If the process terminates during a
\* rotation the store holds the complete pre-rotation or the complete
\* post-rotation state, the restarted process is Locked, and exactly one of
\* the old and new passwords unlocks and decrypts every secret record.
C9_CrashConsistency == [][C9_Step]_vars

\* a rotation of a vault with two records has run both UPDATE statements of
\* its transaction and none of the config statements: the process can be
\* killed here
C9_Witness ==
    \E p \in Procs :
       /\ loc[p].op = "rotate"
       /\ pc[p] = "rot_tx"
       /\ loc[p].txi = 2
       /\ Len(loc[p].enc) = 2
       /\ ~Corrupted(db)

(* ------------------------------- C10 ---------------------------------- *)

\* the step is the key installation of an unlock or init request
UnlockStep ==
    \E p \in Procs : pc[p] \in {"unlock_derive", "init_unlock"} /\ pc'[p] = "done"

\* the step is a lock request, or the process exit
LockStep ==
    \/ \E p \in Procs : Arrives(p) /\ loc'[p].op = "lock"
    \/ \A p \in Procs : pc'[p] = "idle"

\* C10: KeyManager state machine. The initial state is Locked; the key
\* becomes present only through a successful unlock or the auto-unlock of
\* init, and absent only through lock or process exit.
C10_KeyStateMachine ==
    /\ ~is_unlocked(master_key)
    /\ [][ /\ (~is_unlocked(master_key) /\ is_unlocked(master_key')) => UnlockStep
           /\ (is_unlocked(master_key) /\ ~is_unlocked(master_key')) => LockStep ]_vars

(* ------------------------------- C11 ---------------------------------- *)

\* slot p holds an unlock request that has returned with `result`
UnlockDone(p, result) ==
    pc[p] = "done" /\ loc[p].op = "unlock" /\ loc[p].result = result

\* an unlock request is at its key derivation only for the password of the
\* stored verifier, and a rejected one has read no record and kept no salt
C11_Verified ==
    \A p \in Procs :
       /\ (loc[p].op = "unlock" /\ pc[p] = "unlock_derive")
             => db.pw_hash = PhHash(loc[p].password)
       /\ UnlockDone(p, "InvalidPassword")
             => /\ db.pw_hash # PhHash(loc[p].password)
                /\ loc[p].rows = <<>>
                /\ loc[p].salt = NoSalt
                /\ loc[p].temp_key = NoKey

\* the step that rejects an unlock leaves the live key and the store alone
C11_Frame ==
    \A p \in Procs :
       (Stepped(p) /\ loc'[p].op = "unlock" /\ loc'[p].result = "InvalidPassword")
       => master_key' = master_key /\ db' = db

\* C11: verify-before-derive. unlock(password) checks the password against
\* the stored verifier hash before any key derivation; a password that fails
\* verification is rejected with the authentication error, no key is derived
\* for it and no secret or attachment record is read.
C11_VerifyBeforeDerive == []C11_Verified /\ [][C11_Frame]_vars

\* an unlock of a vault that holds a record has been rejected
C11_Witness ==
    \E p \in Procs : UnlockDone(p, "InvalidPassword") /\ db.passwords # <<>>

(* ------------------------------- C12 ---------------------------------- *)

\* the operations that require the key
KeyOps == {"list", "add", "rotate", "upload", "download", "list_att",
           "delete_att", "update"}

\* an operation that requires the key and begins while the vault is Locked
\* ends in that step with the vault-locked error and changes nothing
C12_Step ==
    \A p \in Procs :
       ( /\ pc[p] = "idle"
         /\ pc'[p] # "idle"
         /\ loc'[p].op \in KeyOps
         /\ ~is_unlocked(master_key) )
       => /\ pc'[p] = "done"
          /\ loc'[p].result = "VaultLocked"
          /\ db' = db
          /\ snapshots' = snapshots
          /\ master_key' = master_key

\* C12: locked guard. While the vault is Locked every operation that
\* requires the key (list, add, rotate, attachment list, upload, download and
\* delete, secret update) is rejected with the vault-locked error and leaves
\* the persisted store, the snapshots and the key state unchanged.
C12_LockedGuard == [][C12_Step]_vars

(* ------------------------------- C13 ---------------------------------- *)

\* positions of a rotation between its verification and its commit
RotateVerified == {"rot_rows", "rot_decrypt", "rot_derive", "rot_tx", "rot_commit"}

\* a rotation gets past its verification only with the password of the
\* stored verifier, and a rejected one has read and decrypted no record
C13_Verified ==
    \A p \in Procs :
       /\ (loc[p].op = "rotate" /\ pc[p] \in RotateVerified)
             => db.pw_hash = PhHash(loc[p].password)
       /\ RotateDone(p, "InvalidPassword")
             => /\ db.pw_hash # PhHash(loc[p].password)
                /\ loc[p].rows = <<>>
                /\ loc[p].out = <<>>
                /\ loc[p].temp_key = NoKey

\* the step that rejects a rotation changes nothing
C13_Frame ==
    \A p \in Procs :
       (Stepped(p) /\ loc'[p].op = "rotate" /\ loc'[p].result = "InvalidPassword")
       => /\ db' = db
          /\ snapshots' = snapshots
          /\ master_key' = master_key

\* C13: rotation requires the current password. rotate on an Unlocked vault
\* with a currentPassword that does not match the stored verifier is rejected
\* with the authentication error before any record is decrypted, and leaves
\* the secret records, the MasterConfig, the snapshots and the live key
\* unchanged.
C13_RotateNeedsCurrentPassword == []C13_Verified /\ [][C13_Frame]_vars

\* a rotation of an Unlocked vault that holds a record has been rejected
C13_Witness ==
    \E p \in Procs :
       /\ RotateDone(p, "InvalidPassword")
       /\ is_unlocked(master_key)
       /\ db.passwords # <<>>

(* ------------------------------- C14 ---------------------------------- *)

\* slot p holds a list request that has returned with `result`
ListDone(p, result) ==
    pc[p] = "done" /\ loc[p].op = "list" /\ loc[p].result = result

\* the insert of an add appends one record, with the service and username of
\* the request and a ciphertext that the live key decrypts to its plaintext,
\* and leaves the records already stored as they are
C14_Add ==
    \A p \in Procs :
       (pc[p] = "add_insert" /\ pc'[p] = "done") =>
          /\ Len(db'.passwords) = Len(db.passwords) + 1
          /\ SubSeq(db'.passwords, 1, Len(db.passwords)) = db.passwords
          /\ LET row == db'.passwords[Len(db'.passwords)] IN
                /\ row.service = loc[p].entry.service
                /\ row.username = loc[p].entry.username
                /\ CanDecrypt(master_key, row.nonce, row.encrypted_data)
                /\ decrypt(master_key, row.nonce, row.encrypted_data)
                      = loc[p].entry.password

\* a list of a store that was not corrupted returns one entry per stored
\* record, in order, with the record's id, service and username and the
\* plaintext of its ciphertext, and nothing else
C14_List ==
    \A p \in Procs :
       (ListDone(p, "ok") /\ ~Corrupted(db)) =>
          /\ Len(loc[p].out) = Len(db.passwords)
          /\ \A k \in 1..Len(db.passwords) :
                LET row == db.passwords[k]
                    e == loc[p].out[k]
                IN /\ e.id = row.id
                   /\ e.service = row.service
                   /\ e.username = row.username
                   /\ CanDecrypt(master_key, row.nonce, row.encrypted_data)
                   /\ Encode(e.password) = row.encrypted_data.pt

\* C14: add/list round trip. On an initialized vault, list() on the Unlocked
\* vault returns, for every record added so far, an entry with exactly the
\* service, username and plaintext that were passed to add, and no other
\* entries.
C14_AddListRoundTrip == []C14_List /\ [][C14_Add]_vars

\* a list has returned the two records that were added, with their plaintexts
C14_Witness ==
    \E p \in Procs :
       /\ ListDone(p, "ok")
       /\ Len(loc[p].out) = 2
       /\ {loc[p].out[1].password, loc[p].out[2].password} = {"hunter2", "pw2"}

(* ------------------------------- C15 ---------------------------------- *)

\* when an init request returns, the MasterConfig holds the salt it generated
\* and the verifier hash of its password, the live key is the one derived
\* from its password and the stored salt, and an unlock with that password
\* would succeed and install the same key
C15_Step ==
    \A p \in Procs :
       (pc[p] = "init_unlock" /\ pc'[p] = "done") =>
          /\ loc'[p].result = "ok"
          /\ db'.salt = loc[p].salt
          /\ db'.pw_hash = PhHash(loc[p].password)
          /\ is_unlocked(master_key')
          /\ master_key' = derive_key(loc[p].password, db'.salt)
          /\ UnlockSucceeds(db', loc[p].password)
          /\ UnlockKey(db', loc[p].password) = master_key'

\* C15: init. init(password) on an uninitialized vault creates the
\* MasterConfig (salt and verifier hash of that password) and leaves the
\* vault Unlocked with the key derived from (password, stored salt), so that
\* after a later lock, unlock with the same password succeeds and yields the
\* same key.
C15_Init == [][C15_Step]_vars

(* ------------------------------- C16 ---------------------------------- *)

\* the id an add returns is the id of the record its insert has stored
C16_Step ==
    \A p \in Procs :
       (pc[p] = "add_insert" /\ pc'[p] = "done") =>
          /\ loc'[p].result = "ok"
          /\ loc'[p].id = db'.passwords[Len(db'.passwords)].id

\* C16: add returns the real identifier. The id returned by add is the
\* identifier under which the storage layer stored the new record, the id
\* that list() reports for it; two successful adds never return the same id.
C16_AddReturnsRealId == [][C16_Step]_vars

(* ------------------------------- C17 ---------------------------------- *)

\* the elements of sequence s
Range(s) == {s[k] : k \in 1..Len(s)}

\* a list request that got past the guard succeeds; it returns an entry, with
\* the right plaintext, for exactly the stored records that decrypt under the
\* live key, and the id of every other record is on the standard output
C17_List ==
    \A p \in Procs :
       /\ (loc[p].op = "list" /\ pc[p] = "done")
             => loc[p].result \in {"ok", "VaultLocked"}
       /\ ListDone(p, "ok") =>
             /\ Len(loc[p].out) + Len(loc[p].stdout) = Len(db.passwords)
             /\ \A k \in 1..Len(db.passwords) :
                   LET row == db.passwords[k] IN
                     IF CanDecrypt(master_key, row.nonce, row.encrypted_data)
                     THEN /\ \E e \in Range(loc[p].out) :
                                /\ e.id = row.id
                                /\ e.service = row.service
                                /\ e.username = row.username
                                /\ Encode(e.password) = row.encrypted_data.pt
                          /\ row.id \notin Range(loc[p].stdout)
                     ELSE /\ \A e \in Range(loc[p].out) : e.id # row.id
                          /\ row.id \in Range(loc[p].stdout)

\* C17: list skips and reports. When some stored secret records fail to
\* decrypt under the live key, list() still succeeds, returns exactly the
\* records that do decrypt, each with its correct plaintext, omits the
\* others, and the id of every omitted record is reported or recorded.
C17_ListSkipsAndReports == C17_List

\* a list of two records, one of them corrupted, has returned one entry
C17_Witness ==
    \E p \in Procs :
       /\ ListDone(p, "ok")
       /\ Len(loc[p].out) = 1
       /\ Len(loc[p].stdout) = 1
       /\ Corrupted(db)

(* ------------------------------- C18 ---------------------------------- *)

\* the operations that write to the store and begin with create_snapshot
MutatingOps == {"add", "rotate", "upload", "delete_att", "update"}

\* some snapshot holds content d
SnapshotOf(d) ==
    \E t \in DOMAIN snapshots : snapshots[t].present /\ snapshots[t].content = d

\* when a mutating operation writes to the store, a snapshot holds the store
\* as it is immediately before that write
C18_Step ==
    \A p \in Procs :
       (Stepped(p) /\ loc[p].op \in MutatingOps /\ db' # db) => SnapshotOf(db)

\* C18: snapshot before mutation. Every mutating operation (secret add and
\* update, attachment add and delete, rotate) creates, before its first write
\* to the store, a snapshot whose content equals the persisted store as it
\* was immediately before that operation's mutation.
C18_SnapshotBeforeMutation == [][C18_Step]_vars

(* ------------------------------- C19 ---------------------------------- *)

\* a snapshot that exists keeps its content
C19_Step ==
    \A t \in DOMAIN snapshots :
       snapshots[t].present => snapshots'[t] = snapshots[t]

\* C19: snapshot immutability. Once a snapshot has been created its content
\* never changes; two mutating operations whose snapshots are taken in the
\* same clock second do not make the later snapshot replace the earlier one.
C19_SnapshotImmutable == [][C19_Step]_vars

(* ------------------------------- C20 ---------------------------------- *)

\* the salt and the verifier hash are both absent or both present
C20_Pair == (db.salt = NoSalt) <=> (db.pw_hash = NoHash)

\* a step that changes the salt or the verifier hash is the write of one
\* init or one rotation, which sets both: the salt that request generated
\* and the hash of the password it is installing
C20_WrittenTogether ==
    (db'.salt # db.salt \/ db'.pw_hash # db.pw_hash) =>
       \E p \in Procs :
          /\ Stepped(p)
          /\ loc[p].op \in {"init", "rotate"}
          /\ loc'[p].salt # NoSalt
          /\ db'.salt = loc'[p].salt
          /\ db'.pw_hash = PhHash(IF loc[p].op = "init"
                                  THEN loc[p].password ELSE loc[p].new_password)

\* the verifier is the hash of the password whose derived key, with the
\* stored salt, encrypts the records
C20_Records ==
    db.salt # NoSalt =>
       \E pw \in Passwords :
          /\ db.pw_hash = PhHash(pw)
          /\ \A k \in 1..Len(db.passwords) :
                db.passwords[k].encrypted_data.key = derive_key(pw, db.salt)

\* C20: MasterConfig is never partially updated. In every reachable
\* persisted state the salt and the verifier hash are either both absent or
\* both present, and when present they were written together by the same
\* init or the same rotation: the verifier is the hash of the password whose
\* derived key, with that salt, encrypts the records.
C20_ConfigNeverPartial ==
    /\ [](C20_Pair /\ C20_Records)
    /\ [][C20_WrittenTogether]_vars

\* the first two parts of C20 alone
C20_PairWrittenTogether == []C20_Pair /\ [][C20_WrittenTogether]_vars

(* ------------------------------- C21 ---------------------------------- *)

\* slot p holds a request of kind op that has returned
OpDone(p, op) == pc[p] = "done" /\ loc[p].op = op

\* the insert of an upload stores one attachment, with the request's entry id
\* and filename and a ciphertext that the live key decrypts to the uploaded
\* bytes; the delete of a delete request removes the attachment of that id
C21_Step ==
    \A p \in Procs :
       /\ (pc[p] = "up_insert" /\ pc'[p] = "done") =>
             \E a \in db'.attachments :
                /\ db'.attachments = db.attachments \cup {a}
                /\ a \notin db.attachments
                /\ a.password_id = loc[p].id
                /\ a.filename = loc[p].file.filename
                /\ CanDecrypt(master_key, a.nonce, a.encrypted_data)
                /\ decrypt_bytes(master_key, a.nonce, a.encrypted_data)
                      = loc[p].file.content
       /\ (pc[p] = "da_delete" /\ pc'[p] = "done") =>
             /\ ~HasAttachment(db', loc[p].id)
             /\ \A a \in db.attachments : a.id # loc[p].id => a \in db'.attachments

\* a download that got past the guard returns the bytes of the stored
\* attachment when no rotation has replaced the salt since it was encrypted,
\* and not-found when no attachment has that id; a listing returns id and
\* filename of exactly the attachments of the entry
C21_Read ==
    \A p \in Procs :
       /\ (OpDone(p, "download") /\ loc[p].result # "VaultLocked") =>
             IF HasAttachment(db, loc[p].id)
             THEN LET a == get_attachment(db, loc[p].id) IN
                    a.encrypted_data.key.salt = db.salt =>
                       /\ loc[p].result = "ok"
                       /\ loc[p].out = <<a.encrypted_data.pt>>
             ELSE loc[p].result = "NotFound"
       /\ (OpDone(p, "list_att") /\ loc[p].result # "VaultLocked") =>
             /\ loc[p].result = "ok"
             /\ \A a \in db.attachments :
                   a.password_id = loc[p].id =>
                      \E k \in 1..Len(loc[p].out) :
                         loc[p].out[k] = [id |-> a.id, filename |-> a.filename]
             /\ \A k \in 1..Len(loc[p].out) :
                   \E a \in db.attachments :
                      /\ a.password_id = loc[p].id
                      /\ loc[p].out[k] = [id |-> a.id, filename |-> a.filename]

\* C21: attachment round trip. On an Unlocked vault with no rotation in
\* between, getAttachment(id) for an attachment created by addAttachment
\* returns exactly the uploaded bytes and listAttachments reports its
\* filename; after deleteAttachment(id) it is no longer listed and
\* getAttachment(id) reports not-found.
C21_AttachmentRoundTrip == []C21_Read /\ [][C21_Step]_vars

\* an attachment was uploaded and deleted (the id counter has moved on), and
\* a download of its id has answered not-found
C21_Witness ==
    \E p \in Procs :
       /\ OpDone(p, "download")
       /\ loc[p].result = "NotFound"
       /\ db.att_seq >= loc[p].id

(* ------------------------------- C22 ---------------------------------- *)

\* the nonces of the ciphertexts in the store
StoredNonces ==
    {db.passwords[k].nonce : k \in 1..Len(db.passwords)}
       \cup {a.nonce : a \in db.attachments}

\* positions at which a request holds ciphertexts it has made and not stored
HoldsNewCiphertext == {"add_snapshot", "add_insert", "up_snapshot", "up_insert",
                       "rot_tx", "rot_commit"}

\* no two stored ciphertexts under the same key share a nonce, each is stored
\* with the nonce it was made with, and the nonces of ciphertexts that are
\* about to be stored are neither stored already nor used twice
C22_Nonces ==
    /\ \A i, j \in 1..Len(db.passwords) :
          LET a == db.passwords[i]
              b == db.passwords[j]
          IN /\ a.nonce = a.encrypted_data.nonce
             /\ (i # j /\ a.encrypted_data.key = b.encrypted_data.key)
                   => a.nonce # b.nonce
    /\ \A a, b \in db.attachments :
          /\ a.nonce = a.encrypted_data.nonce
          /\ (a.id # b.id /\ a.encrypted_data.key = b.encrypted_data.key)
                => a.nonce # b.nonce
    /\ \A k \in 1..Len(db.passwords) : \A a \in db.attachments :
          db.passwords[k].encrypted_data.key = a.encrypted_data.key
             => db.passwords[k].nonce # a.nonce
    /\ \A p \in Procs :
          pc[p] \in HoldsNewCiphertext =>
             \A i, j \in 1..Len(loc[p].enc) :
                /\ loc[p].enc[i].nonce \notin StoredNonces
                /\ i # j => loc[p].enc[i].nonce # loc[p].enc[j].nonce

Quiescent == \A p \in Procs : pc[p] \in {"idle", "done"}

\* C23: the live key agrees with the persisted config at quiescence. For any
\* interleaving of concurrent init, unlock, lock and rotate requests, once
\* all of them have completed, an unlocked vault holds the key derived from
\* the persisted salt and the password of the persisted verifier, and every
\* secret record decrypts under that key.
C23_KeyAgreesAtQuiescence ==
    (Quiescent /\ is_unlocked(master_key)) =>
       \E pw \in Passwords :
          /\ UnlockSucceeds(db, pw)
          /\ master_key = UnlockKey(db, pw)
          /\ DecryptsAll(db, master_key)

(* ------------------------------- C24 ---------------------------------- *)

\* a step that replaces an existing MasterConfig is the commit of a rotation,
\* and an init request that meets an existing config is rejected
C24_Step ==
    /\ (get_master_config(db).salt # NoSalt
          /\ get_master_config(db') # get_master_config(db))
          => \E p \in Procs :
                /\ loc[p].op = "rotate"
                /\ pc[p] = "rot_commit"
                /\ pc'[p] = "rot_swap"
    /\ \A p \in Procs :
          (pc[p] = "idle" /\ loc'[p].op = "init"
              /\ get_master_config(db).salt # NoSalt)
             => /\ pc'[p] = "done"
                /\ loc'[p].result = "AlreadyInitialized"
                /\ db' = db
                /\ master_key' = master_key

\* C24: init never overwrites an existing vault. Once a MasterConfig exists,
\* init is rejected and changes nothing, also when two init requests
\* interleave; only a successful rotation replaces the MasterConfig.
C24_InitNeverOverwrites == [][C24_Step]_vars

(* ------------------------------- C25 ---------------------------------- *)

\* a lock request has completed while a rotation was in flight, no unlock or
\* init request is in flight, and then a step that is not the start of an
\* unlock or init is taken
LockedDuringRotation ==
    /\ ~is_unlocked(master_key)
    /\ \E p \in Procs : loc[p].op = "rotate" /\ pc[p] \in RotateRunning
    /\ \A p \in Procs : loc[p].op \notin {"unlock", "init"}
    /\ \A p \in Procs : loc'[p].op \notin {"unlock", "init"}

\* C25: lock is not undone by an in-flight rotation. When a lock request has
\* completed during a rotation, the vault stays Locked until the next
\* successful unlock, however the rotation resolves.
C25_LockNotUndone ==
    [][LockedDuringRotation => ~is_unlocked(master_key')]_vars

(* ------------------------------- C26 ---------------------------------- *)

\* the answers of an unlock request that fails
UnlockFailures == {"InvalidPassword", "NotInitialized"}

\* an unlock request with a password that is not the one of the stored
\* verifier, or on a vault with no config, fails; the step in which an
\* unlock request fails changes neither the key state nor anything stored
C26_Step ==
    \A p \in Procs :
       (pc[p] = "idle" /\ loc'[p].op = "unlock") =>
          /\ get_master_config(db).salt = NoSalt
                => loc'[p].result = "NotInitialized"
          /\ (get_master_config(db).salt # NoSalt
                 /\ get_master_config(db).pw_hash # PhHash(loc'[p].password))
                => loc'[p].result = "InvalidPassword"
          /\ loc'[p].result \in UnlockFailures
                => /\ pc'[p] = "done"
                   /\ master_key' = master_key
                   /\ is_unlocked(master_key') = is_unlocked(master_key)
                   /\ db' = db
                   /\ snapshots' = snapshots
                   /\ salt_ctr' = salt_ctr

\* C26: a failed unlock changes nothing. An unlock that fails (wrong
\* password, or vault not initialized) leaves the key state exactly as it
\* was, whether Locked or Unlocked, and leaves the store unchanged.
C26_FailedUnlockChangesNothing == [][C26_Step]_vars

\* an unlock with a wrong password has been rejected on an unlocked vault,
\* and the key of the stored password is still live
C26_Witness ==
    \E p \in Procs :
       /\ UnlockDone(p, "InvalidPassword")
       /\ is_unlocked(master_key)
       /\ \E pw \in Passwords : UnlockSucceeds(db, pw) /\ master_key = UnlockKey(db, pw)

(* ------------------------------- C27 ---------------------------------- *)

\* slot p holds a rotation request that has not returned
RotateInFlight(p) ==
    loc[p].op = "rotate" /\ pc[p] \in {"rot_verify"} \cup RotateRunning

\* a rotation that has returned success is in effect as a whole: records and
\* config are the ones it committed and the live key is its new key; one that
\* has returned an error has left nothing of its new epoch behind
C27_Outcome ==
    \A p \in Procs :
       /\ RotateDone(p, "ok")
             => /\ FullyApplied(db, loc[p])
                /\ Len(loc[p].enc) = Len(db.passwords)
                /\ db.pw_hash = PhHash(loc[p].new_password)
                /\ master_key = loc[p].temp_key
                /\ master_key = derive_key(loc[p].new_password, db.salt)
                /\ DecryptsAll(db, master_key)
       /\ (pc[p] = "done" /\ loc[p].op = "rotate" /\ loc[p].result # "ok")
             => /\ loc[p].salt # NoSalt => db.salt # loc[p].salt
                /\ loc[p].temp_key # NoKey
                      => /\ master_key # loc[p].temp_key
                         /\ \A i \in 1..Len(db.passwords) :
                               db.passwords[i].encrypted_data.key # loc[p].temp_key

\* a step of a rotation changes the store only when it commits, and then to
\* the fully applied store; it changes the live key only in the swap that
\* follows the commit and returns success; so a rotation that returns an
\* error has changed neither
C27_Step ==
    \A p \in Procs :
       (RotateInFlight(p) /\ Stepped(p)) =>
          /\ db' # db
                => /\ pc[p] = "rot_commit" /\ pc'[p] = "rot_swap"
                   /\ FullyApplied(db', loc[p])
          /\ master_key' # master_key
                => /\ pc[p] = "rot_swap" /\ pc'[p] = "done"
                   /\ master_key' = loc[p].temp_key
          /\ pc[p] = "rot_swap" => (pc'[p] = "done" /\ loc'[p].result = "ok")
          /\ (pc'[p] = "done" /\ loc'[p].result # "ok")
                => (db' = db /\ master_key' = master_key)

C27_WitnessFailed ==
    \E p \in Procs :
       /\ RotateDone(p, "StorageError")
       /\ Len(loc[p].enc) >= 1

(* ------------------------------- C28 ---------------------------------- *)

\* slot p holds an import request that has returned with `result`
ImportDone(p, result) ==
    pc[p] = "done" /\ loc[p].op = "import" /\ loc[p].result = result

\* the rows of a CSV file that have a non-empty password
WithPassword(csv) == SelectSeq(csv.rows, LAMBDA r : r.password # "")

\* what GET /api/passwords answers on store d with live key `key`
ListResult(d, key) ==
    LET ok == SelectSeq(d.passwords,
                        LAMBDA r : CanDecrypt(key, r.nonce, r.encrypted_data))
    IN [k \in 1..Len(ok) |-> ListEntry(key, ok[k])]

\* a list that has returned has answered ListResult
C28_List ==
    \A p \in Procs : ListDone(p, "ok") => loc[p].out = ListResult(db, master_key)

\* every step of an import adds as many records as it adds to its count, and
\* the step in which an import returns success leaves, as the last records
\* of the store, one record per CSV row with a non-empty password, in order,
\* which list would answer with the row's username and password
C28_Step ==
    \A p \in Procs :
       /\ (loc'[p].op = "import" /\ Stepped(p))
             => Len(db'.passwords) - Len(db.passwords) = loc'[p].count - loc[p].count
       /\ (loc'[p].op = "import" /\ pc[p] # "done" /\ pc'[p] = "done"
              /\ loc'[p].result = "ok")
             => LET want == WithPassword(loc'[p].csv)
                    n == Len(want)
                    listed == ListResult(db', master_key')
                    first == Len(db'.passwords) - n
                IN /\ loc'[p].count = n
                   /\ first >= 0
                   /\ Len(listed) = Len(db'.passwords)
                   /\ \A k \in 1..n :
                         /\ listed[first + k].id = db'.passwords[first + k].id
                         /\ listed[first + k].password = want[k].password
                         /\ HasColumn(loc'[p].csv.header, "username")
                               => listed[first + k].username = want[k].username

\* C28: import stores what it reads. After a successful import on an
\* Unlocked vault, every CSV row with a non-empty password appears in list()
\* as a record with that row's username and password as plaintext, rows with
\* an empty password add no record, and the reported count equals the number
\* of records added.
C28_ImportStoresWhatItReads == []C28_List /\ [][C28_Step]_vars

\* an import of a two-row file has returned success with a count of one:
\* the row with the empty password was skipped
C28_Witness ==
    \E p \in Procs :
       /\ ImportDone(p, "ok")
       /\ Len(loc[p].csv.rows) = 2
       /\ loc[p].count = 1
       /\ \E k \in 1..2 : loc[p].csv.rows[k].password = ""

\* a list after an import has answered the imported username and password
C28_WitnessListed ==
    \E p \in Procs :
       /\ ListDone(p, "ok")
       /\ \E k \in 1..Len(loc[p].out) :
             loc[p].out[k].username = "alice" /\ loc[p].out[k].password = "pw1"

====
